---- MODULE Spec2Model ----
(***************************************************************************)
(* Key estimation by profile matching (Essentia Key2 and KeyEDM).          *)
(*                                                                         *)
(* State: one configured algorithm instance (its loaded 12-bin templates,  *)
(* the cached interpolated profiles with their cached mean and deviation   *)
(* root), the bound input PCP and the four bound outputs.                  *)
(*                                                                         *)
(* Numbers.  The code computes in Real.  Here every Real that the code     *)
(* compares or outputs is kept exactly:                                    *)
(*   - template and profile values are integers in a fixed unit (the       *)
(*     template's decimal unit divided by n, the bins per semitone);       *)
(*   - a correlation score is num / sqrt(den2) with num an exact signed    *)
(*     integer and den2 an exact non-negative integer, or NaN (0/0);       *)
(*   - scores are compared exactly (by sign and by cross-multiplied        *)
(*     squares), NaN comparing false with everything as in IEEE 754.       *)
(* Integers wider than 31 bits are digit sequences (little endian).        *)
(*                                                                         *)
(* Specifications.  Spec: any sequence of configure() and compute() calls  *)
(* on one instance.  SpecEstimate: one compute() on an instance configured *)
(* with a usable profile type, over a family of inputs.  SpecScores: one   *)
(* compute() whose correlator may return any table of scores, which        *)
(* covers what rounding in Real arithmetic can produce (equal maxima of    *)
(* different modes in particular).  SpecStreaming: the streaming           *)
(* composite, configured any number of times and then run once.            *)
(***************************************************************************)
EXTENDS Integers, Sequences, FiniteSets

\* ------------------------------------------------------------------ bounds
\* largest number of PCP bins per semitone (PCP length 12 * n, n in 1..MaxBins)
MaxBins == 2
\* largest PCP bin value of the generated inputs
MaxAmp == 2

\* ------------------------------------------------- wide natural arithmetic
\* Digit base of the wide integers: digit products stay below 2^31.
Base == 100 * 100

Max(a, b) == IF a >= b THEN a ELSE b

\* a function on 1..n as the sequence of its values (held as a tuple)
AsSeq(f) == f \o <<>>

Abs(x) == IF x < 0 THEN 0 - x ELSE x

Sgn(x) == IF x < 0 THEN 0 - 1 ELSE IF x = 0 THEN 0 ELSE 1

RECURSIVE SumRange(_, _, _)
\* v[lo] + ... + v[hi]
SumRange(v, lo, hi) ==
  IF lo > hi THEN 0
  ELSE IF lo = hi THEN v[lo]
  ELSE LET mid == (lo + hi) \div 2
       IN  SumRange(v, lo, mid) + SumRange(v, mid + 1, hi)

\* the natural number n (n < 2^31) as digits
BNat(n) ==
  IF n = 0 THEN <<>>
  ELSE IF n < Base THEN <<n>>
  ELSE IF n < Base * Base THEN <<n % Base, n \div Base>>
  ELSE <<n % Base, (n \div Base) % Base, n \div (Base * Base)>>

RECURSIVE BCarryRange(_, _, _, _)
\* the canonical digits d of s[lo..hi] plus the carry c, and the carry out
BCarryRange(s, lo, hi, c) ==
  IF lo > hi THEN [d |-> <<>>, c |-> c]
  ELSE IF lo = hi
  THEN LET t == s[lo] + c IN [d |-> <<t % Base>>, c |-> t \div Base]
  ELSE LET mid == (lo + hi) \div 2
           L == BCarryRange(s, lo, mid, c)
           R == IF L.c = 0 THEN BCarryRange(s, mid + 1, hi, 0)
                ELSE BCarryRange(s, mid + 1, hi, L.c)
       IN  [d |-> L.d \o R.d, c |-> R.c]

\* digits s (each possibly >= Base) as canonical digits
BCarry(s) ==
  LET r == BCarryRange(s, 1, Len(s), 0) IN r.d \o BNat(r.c)

\* drop the leading (most significant) zero digits
BTrim(s) ==
  LET nz == {k \in 1..Len(s) : s[k] # 0}
  IN  IF nz = {} THEN <<>>
      ELSE SubSeq(s, 1, CHOOSE k \in nz : \A j \in nz : j <= k)

BDigit(s, k) == IF k >= 1 /\ k <= Len(s) THEN s[k] ELSE 0

BAdd(a, b) ==
  BCarry(AsSeq([k \in 1..Max(Len(a), Len(b)) |-> BDigit(a, k) + BDigit(b, k)]))

\* -1, 0, 1 as a < b, a = b, a > b (canonical digits)
BCmp(a, b) ==
  IF Len(a) > Len(b) THEN 1
  ELSE IF Len(a) < Len(b) THEN 0 - 1
  ELSE LET df == {k \in 1..Len(a) : a[k] # b[k]}
       IN  IF df = {} THEN 0
           ELSE LET k == CHOOSE i \in df : \A j \in df : j <= i
                IN  IF a[k] > b[k] THEN 1 ELSE 0 - 1

\* a - b for a >= b: digit differences, a borrow being a carry of -1
BSub(a, b) ==
  BTrim(BCarryRange(AsSeq([k \in 1..Len(a) |-> a[k] - BDigit(b, k)]),
                    1, Len(a), 0).d)

\* sum of a[i] * b[k + 1 - i] over the i with both digits present
BConv(a, b, k) ==
  LET lo == Max(1, k + 1 - Len(b))
      hi == IF k < Len(a) THEN k ELSE Len(a)
  IN  SumRange(AsSeq([i \in 1..hi |-> IF i < lo THEN 0 ELSE a[i] * b[k + 1 - i]]),
               1, hi)

BMul(a, b) ==
  IF a = <<>> \/ b = <<>> THEN <<>>
  ELSE BTrim(BCarry(AsSeq([k \in 1..(Len(a) + Len(b) - 1) |->
                              BConv(a, b, k)])))

\* ------------------------------------------------- wide signed arithmetic
\* a signed integer: sign sg in {-1, 0, 1} and magnitude mg (digits)
SInt(x) == [sg |-> Sgn(x), mg |-> BNat(Abs(x))]

SNeg(a) == [sg |-> 0 - a.sg, mg |-> a.mg]

SMul(a, b) == [sg |-> a.sg * b.sg, mg |-> BMul(a.mg, b.mg)]

SAdd(a, b) ==
  IF a.sg = 0 THEN b
  ELSE IF b.sg = 0 THEN a
  ELSE IF a.sg = b.sg THEN [sg |-> a.sg, mg |-> BAdd(a.mg, b.mg)]
  ELSE LET c == BCmp(a.mg, b.mg)
       IN  IF c = 0 THEN [sg |-> 0, mg |-> <<>>]
           ELSE IF c > 0 THEN [sg |-> a.sg, mg |-> BSub(a.mg, b.mg)]
           ELSE [sg |-> b.sg, mg |-> BSub(b.mg, a.mg)]

SSub(a, b) == SAdd(a, SNeg(b))

\* -1, 0, 1 as a < b, a = b, a > b
SCmp(a, b) ==
  IF a.sg # b.sg THEN (IF a.sg > b.sg THEN 1 ELSE 0 - 1)
  ELSE IF a.sg = 0 THEN 0
  ELSE a.sg * BCmp(a.mg, b.mg)

\* ------------------------------------------------------------ C arithmetic
\* C integer division: the quotient truncated toward zero
TruncDiv(a, b) == Sgn(a) * Sgn(b) * (Abs(a) \div Abs(b))

\* (int) (x + 0.5) for an int x: x + 0.5 is (2x + 1) / 2 exactly, and the
\* cast truncates toward zero
CastPlusHalf(x) == TruncDiv(2 * x + 1, 2)

\* ---------------------------------------------------------------- scores
\* A Real score: NaN, or the exact value num / sqrt(den2), den2 > 0.
NaN == [nan |-> TRUE, num |-> SInt(0), den2 |-> <<>>]

\* the Real with integer value x
RealOf(x) == [nan |-> FALSE, num |-> SInt(x), den2 |-> BNat(1)]

\* the Real x / q (q > 0)
RealFrac(x, q) == [nan |-> FALSE, num |-> SInt(x), den2 |-> BNat(q * q)]

\* sign(num) * num^2 * other: orders num/sqrt(den2) against its partner
ScoreKey(a, other) ==
  [sg |-> a.num.sg, mg |-> BMul(BMul(a.num.mg, a.num.mg), other)]

\* -1, 0, 1 as a < b, a = b, a > b for non-NaN a, b
ScoreCmp(a, b) ==
  IF a.den2 = b.den2 THEN SCmp(a.num, b.num)
  ELSE SCmp(ScoreKey(a, b.den2), ScoreKey(b, a.den2))

\* a > b in Real (false when either is NaN)
ScoreGT(a, b) == ~a.nan /\ ~b.nan /\ ScoreCmp(a, b) > 0

\* a >= b in Real (false when either is NaN)
ScoreGE(a, b) == ~a.nan /\ ~b.nan /\ ScoreCmp(a, b) >= 0

\* a == b in Real (false when either is NaN)
ScoreEQ(a, b) == ~a.nan /\ ~b.nan /\ ScoreCmp(a, b) = 0

\* r / (std1 * std2) with r = num exactly and (std1 * std2)^2 = den2:
\* 0 / 0 is NaN (a zero deviation root makes every term of r zero)
Divide(num, den2) ==
  IF den2 = <<>> THEN NaN ELSE [nan |-> FALSE, num |-> num, den2 |-> den2]

\* --------------------------------------------------------------- catalog
keyNames == <<"A", "Bb", "B", "C", "C#", "D", "Eb", "E", "F", "F#", "G", "Ab">>

\* Key2's profileTypes table, in units of 0.0001
profileTypesKey2 ==
  << <<10000, 1573, 4200, 1570, 5296, 3669, 1632, 7711, 1676, 3827, 2113, 2965>>,
     <<10000, 2330, 3615, 3905, 2925, 3777, 1961, 7425, 2701, 2161, 4228, 2272>>,
     <<10000, 2608, 3528, 2935, 4393, 3580, 2137, 7809, 2578, 2539, 3233, 2615>>,
     <<10000, 1000, 4200, 1000, 5300, 3700, 1000, 7700, 1000, 3800, 2100, 3000>>,
     <<10000, 1000, 3600, 3900, 2900, 3800, 1000, 7400, 2700, 1000, 4200, 2300>>,
     <<10000, 2600, 3500, 2900, 4400, 3600, 2100, 7800, 2600, 2500, 3200, 2600>>,
     <<10000,    0, 4200,    0, 5300, 3700,    0, 7600,    0, 3800, 2100, 3000>>,
     <<10000,    0, 3600, 3900, 1000, 3700,    0, 7600, 2700,    0, 4200, 2300>>,
     <<10000, 2600, 3500, 2900, 4400, 3700, 2100, 7600, 2600, 2500, 3200, 2600>>,
     <<10000, 2900, 5000, 4000, 6000, 5600, 3200, 8000, 3100, 4500, 4200, 3900>>,
     <<10000, 3100, 4400, 5800, 3300, 4900, 2900, 7800, 4300, 2900, 5300, 3200>>,
     <<10000, 2600, 3500, 2900, 4400, 3600, 2100, 7800, 2600, 2500, 3200, 2600>> >>

\* KeyEDM's profileTypes table; rows 1..4 in units of 0.1, rows 5..8 in
\* units of 0.00000001 (a correlation does not depend on the unit)
profileTypesKeyEDM ==
  << <<50, 20, 35, 20, 45, 40, 20, 45, 20, 35, 15, 40>>,
     <<50, 20, 35, 45, 20, 40, 20, 45, 35, 20, 15, 40>>,
     <<66, 20, 35, 23, 46, 40, 25, 52, 24, 37, 23, 34>>,
     <<65, 27, 35, 54, 26, 35, 25, 52, 40, 27, 43, 32>>,
     <<16519551, 4749026, 8293076, 6687112, 9994645, 9274123,
       5294487, 13159476, 5218986, 7443653, 6940723, 6425150>>,
     <<17235348, 5336489, 7610090, 10043649, 5621498, 8527853,
       4979150, 13451001, 7458916, 5003023, 9187879, 5545106>>,
     <<8300000, 8300000, 8300000, 8300000, 8300000, 8300000,
       8300000, 8300000, 8300000, 8300000, 8300000, 8300000>>,
     <<17235348, 4000000, 7610090, 12000000, 5621498, 8527853,
       4979150, 13451001, 7458916, 5003023, 9187879, 5545106>> >>

Algorithms == {"Key2", "KeyEDM"}

\* the template roles an algorithm evaluates: _M, _m and (Key2) _O
Modes(a) == IF a = "Key2" THEN {"M", "m", "O"} ELSE {"M", "m"}

\* the enumerated set declareParameters gives profileType
DeclaredTypes(a) ==
  IF a = "Key2" THEN {"bmtg1", "bmtg2", "bmtg3", "edma"}
  ELSE {"edma", "edmm", "bmtg1", "bmtg2", "bmtg3"}

\* profileType's default value in declareParameters
DefaultType(a) == IF a = "Key2" THEN "bmtg2" ELSE "edma"

\* pcpSize's default value in declareParameters
DefaultPcpSize == 36

\* the index i of SET_PROFILE(i) that configure's if-chain selects, -1 for
\* its final else (the throw)
ProfileIndex(a, t) ==
  IF a = "Key2"
  THEN IF t = "bmtg1" THEN 0
       ELSE IF t = "bmtg2" THEN 1
       ELSE IF t = "bmtg3" THEN 2
       ELSE IF t = "edma" THEN 3
       ELSE 0 - 1
  ELSE IF t = "temperley" THEN 0
       ELSE IF t = "shaath" THEN 1
       ELSE IF t = "edma" THEN 2
       ELSE IF t = "edmm" THEN 3
       ELSE 0 - 1

\* SET_PROFILE(i): the templates _M, _m (and _O) of table rows
SET_PROFILE(a, i) ==
  IF a = "Key2"
  THEN [M |-> profileTypesKey2[3 * i + 1],
        m |-> profileTypesKey2[3 * i + 2],
        O |-> profileTypesKey2[3 * i + 3]]
  ELSE [M |-> profileTypesKeyEDM[2 * i + 1],
        m |-> profileTypesKeyEDM[2 * i + 2]]

\* --------------------------------------------------------- numeric helpers
\* The loops below are summed by halves (the recursion stays shallow).
\* mean(v) as the exact fraction num / den
Mean(v) == [num |-> SumRange(v, 1, Len(v)), den |-> Len(v)]

\* den * (v[i] - mean): the deviation of v[i], scaled to an integer
Dev(v, mean, i) == mean.den * v[i] - mean.num

RECURSIVE SumSqDev(_, _, _, _)
\* the loop "std += (v[i] - mean) * (v[i] - mean)" over i in lo..hi,
\* scaled by den^2
SumSqDev(v, mean, lo, hi) ==
  IF lo > hi THEN <<>>
  ELSE IF lo = hi
  THEN LET d == BNat(Abs(Dev(v, mean, lo))) IN BMul(d, d)
  ELSE LET mid == (lo + hi) \div 2
       IN  BAdd(SumSqDev(v, mean, lo, mid), SumSqDev(v, mean, mid + 1, hi))

\* std = sqrt(sum of squared deviations), kept as (den * std)^2
Std(v, mean) == SumSqDev(v, mean, 1, Len(v))

\* ----------------------------------------------------------- interpolator
\* the interpolation with a flat last segment (no wrap from the last
\* template entry to the first): C17 does not hold of it
InterpolateNoWrap(T, pcpsize) ==
  LET n == pcpsize \div 12
  IN  AsSeq([k \in 1..pcpsize |->
        LET i == (k - 1) \div n
            j == (k - 1) % n
            incrN == IF i = 11 THEN 0 ELSE T[i + 1] - T[i + 2]
        IN  n * T[i + 1] - j * incrN])

\* One profile of resize(pcpsize), n = pcpsize / 12, in units of 1/n of the
\* template's unit: entry i*n + j is T[i] - j * incr with
\* incr = (T[i] - T[i+1]) / n, and (T[11] - T[0]) / n for i = 11.
\* (For pcpsize a multiple of 12 the loops write every entry.)
Interpolate(T, pcpsize) ==
  LET n == pcpsize \div 12
  IN  AsSeq([k \in 1..pcpsize |->
        LET i == (k - 1) \div n
            j == (k - 1) % n
            incrN == IF i = 11 THEN T[12] - T[1] ELSE T[i + 1] - T[i + 2]
        IN  n * T[i + 1] - j * incrN])

\* resize(pcpsize) for templates t: the interpolated profiles with their
\* mean and deviation root
Resize(t, pcpsize) ==
  LET prof == [X \in DOMAIN t |-> Interpolate(t[X], pcpsize)]
      mn == [X \in DOMAIN t |-> Mean(prof[X])]
  IN  [profile_do |-> prof,
       mean_profile |-> mn,
       std_profile |-> [X \in DOMAIN t |-> Std(prof[X], mn[X])]]

\* ------------------------------------------------------------- correlator
\* C's remainder a % b (the sign of a)
TruncRem(a, b) == a - b * TruncDiv(a, b)

\* the pairing with the shift added instead of subtracted: C10 does not hold
\* of it
ShiftIndexForward(i, shift, size) == (i + shift) % size

\* the index of v2 the loop pairs with v1[i]: (i - shift) % size, plus size
\* when negative
ShiftIndex(i, shift, size) ==
  LET rem == TruncRem(i - shift, size)
  IN  IF rem < 0 THEN rem + size ELSE rem

\* the deviations v[i] - mean of a vector, each scaled by mean.den
Deviations(v, mean) == AsSeq([i \in 1..Len(v) |-> Dev(v, mean, i)])

\* a vector of (wide) deviations as its two signed digits
DigitsLo(d) == AsSeq([i \in 1..Len(d) |-> Sgn(d[i]) * (Abs(d[i]) % Base)])

DigitsHi(d) == AsSeq([i \in 1..Len(d) |-> Sgn(d[i]) * (Abs(d[i]) \div Base)])

\* the loop "r += (v1[i] - mean1) * (v2[index] - mean2)" over the (scaled)
\* deviations d1 of v1 and d2 = d2hi * Base + d2lo of v2; the two digit
\* sums are added up separately
CorrSum(d1, d2lo, d2hi, shift) ==
  LET size == Len(d1)
      index == AsSeq([k \in 1..size |-> ShiftIndex(k - 1, shift, size) + 1])
      lo == AsSeq([k \in 1..size |-> d1[k] * d2lo[index[k]]])
      hi == AsSeq([k \in 1..size |-> d1[k] * d2hi[index[k]]])
  IN  SAdd(SInt(SumRange(lo, 1, size)), SMul(SInt(SumRange(hi, 1, size)), SInt(Base)))

\* the correlation divided by std2 only: C12 does not hold of it
CorrelationByStd2(d1, std1, d2lo, d2hi, std2, shift) ==
  Divide(CorrSum(d1, d2lo, d2hi, shift), std2)

\* correlation(v1, mean1, std1, v2, mean2, std2, shift), the vectors given
\* by their deviations from their means
Correlation(d1, std1, d2lo, d2hi, std2, shift) ==
  Divide(CorrSum(d1, d2lo, d2hi, shift), BMul(std1, std2))

\* the scores of one mode for every shift 0..pcpsize-1 (at index shift + 1)
CorrRow(d1, std1, v2, mean2, std2) ==
  LET d2 == Deviations(v2, mean2)
      d2lo == DigitsLo(d2)
      d2hi == DigitsHi(d2)
  IN  AsSeq([s \in 1..Len(d1) |->
               Correlation(d1, std1, d2lo, d2hi, std2, s - 1)])

\* the scores of every mode of the cache c for the input p
CorrTable(p, c) ==
  LET mean_pcp == Mean(p)
      std_pcp == Std(p, mean_pcp)
      d1 == Deviations(p, mean_pcp)
  IN  [X \in DOMAIN c.profile_do |->
        CorrRow(d1, std_pcp, c.profile_do[X], c.mean_profile[X],
                c.std_profile[X])]

\* -------------------------------------------------------- decision engine
\* the scan's running state for one mode before the first shift
ScanStart == [max |-> RealOf(0 - 1), max2 |-> RealOf(0 - 1), keyIndex |-> 0 - 1]

\* one iteration of the scan loop: "if (corr > max) { max2 = max;
\* max = corr; keyIndex = shift; }"
ScanStep(st, c, shift) ==
  IF ScoreGT(c, st.max)
  THEN [max |-> c, max2 |-> st.max, keyIndex |-> shift]
  ELSE st

RECURSIVE ScanRange(_, _, _, _)
\* the scan loop over shifts lo..hi in ascending order, from state st: the
\* shifts up to mid first (their keyIndex is one of them, or st's), then
\* the rest
ScanRange(row, lo, hi, st) ==
  IF lo > hi THEN st
  ELSE IF lo = hi THEN ScanStep(st, row[lo + 1], lo)
  ELSE LET mid == (lo + hi) \div 2
           done == ScanRange(row, lo, mid, st)
       IN  CASE done.keyIndex <= mid -> ScanRange(row, mid + 1, hi, done)

\* "for (int shift=0; shift<pcpsize; shift++)" for one mode
Scan(row) == ScanRange(row, 0, Len(row) - 1, ScanStart)

\* keyIndex = (int) (keyIndexX * 12 / pcpsize + 0.5), in int arithmetic up to
\* the addition
KeyIndexOf(keyIndexX, pcpsize) == CastPlusHalf(TruncDiv(keyIndexX * 12, pcpsize))

\* the locals keyIndex, max, max2 and scale before the cascade
NoChoice ==
  [keyIndex |-> 0 - 1, max |-> RealOf(0 - 1), max2 |-> RealOf(0 - 1),
   scale |-> "MAJOR"]

Chosen(sc, scaleName, pcpsize) ==
  [keyIndex |-> KeyIndexOf(sc.keyIndex, pcpsize), max |-> sc.max,
   max2 |-> sc.max2, scale |-> scaleName]

\* the cascade with major winning its ties: C6 does not hold of it
Key2ChooseMajorFirst(sc, pcpsize) ==
  IF ScoreGE(sc.M.max, sc.m.max) /\ ScoreGE(sc.M.max, sc.O.max)
  THEN Chosen(sc.M, "MAJOR", pcpsize)
  ELSE IF ScoreGE(sc.m.max, sc.M.max) /\ ScoreGE(sc.m.max, sc.O.max)
  THEN Chosen(sc.m, "MINOR", pcpsize)
  ELSE IF ScoreGT(sc.O.max, sc.M.max) /\ ScoreGT(sc.O.max, sc.m.max)
  THEN Chosen(sc.O, "OTHER", pcpsize)
  ELSE NoChoice

\* Key2::compute's if / else if / else if over the three maxima
Key2Choose(sc, pcpsize) ==
  IF ScoreGT(sc.M.max, sc.m.max) /\ ScoreGT(sc.M.max, sc.O.max)
  THEN Chosen(sc.M, "MAJOR", pcpsize)
  ELSE IF ScoreGE(sc.m.max, sc.M.max) /\ ScoreGE(sc.m.max, sc.O.max)
  THEN Chosen(sc.m, "MINOR", pcpsize)
  ELSE IF ScoreGT(sc.O.max, sc.M.max) /\ ScoreGT(sc.O.max, sc.m.max)
  THEN Chosen(sc.O, "OTHER", pcpsize)
  ELSE NoChoice

\* the choice with minor winning the tie: C7 does not hold of it
KeyEDMChooseMinorFirst(sc, pcpsize) ==
  IF ScoreGT(sc.M.max, sc.m.max)
  THEN Chosen(sc.M, "MAJOR", pcpsize)
  ELSE Chosen(sc.m, "MINOR", pcpsize)

\* KeyEDM::compute's if / else over the two maxima
KeyEDMChoose(sc, pcpsize) ==
  IF ScoreGE(sc.M.max, sc.m.max)
  THEN Chosen(sc.M, "MAJOR", pcpsize)
  ELSE Chosen(sc.m, "MINOR", pcpsize)

Choose(a, sc, pcpsize) ==
  IF a = "Key2" THEN Key2Choose(sc, pcpsize) ELSE KeyEDMChoose(sc, pcpsize)

\* the scale output for the local scale
ScaleName(sc) == IF sc = "MAJOR" THEN "major" ELSE "minor"

\* (max - max2) / max, kept exactly as the pair of its operands
RelativeStrength(max, max2) == [max |-> max, max2 |-> max2]

\* ------------------------------------------------------------ the program
VARIABLES
  alg,            \* which algorithm the instance is: "Key2" or "KeyEDM"
  profileType,    \* _profileType
  tmpl,           \* the templates _M, _m (and _O)
  cache,          \* _profile_do*, _mean_profile_*, _std_profile_*
  pcp,            \* the input bound at the last compute()
  key,            \* output key
  scale,          \* output scale
  strength,       \* output strength
  firstToSecondRelativeStrength,  \* output firstToSecondRelativeStrength
  call,           \* the last call: "construct", "configure" or "compute"
  err,            \* how the last call ended: "none" or the exception raised
  locals          \* compute()'s locals at the end of the last call that
                  \* passed the size check

vars == <<alg, profileType, tmpl, cache, pcp, key, scale, strength,
          firstToSecondRelativeStrength, call, err, locals>>

outputs == <<key, scale, strength, firstToSecondRelativeStrength>>

\* no compute() has passed the size check yet
NoLocals == [corr |-> <<>>, scan |-> <<>>, choice |-> NoChoice]

\* the size check with 12 itself rejected: C2 does not hold of it
InvalidSizeFrom13(p) == Len(p) <= 12 \/ Len(p) % 12 # 0

\* "pcpsize < 12 || pcpsize % 12 != 0"
InvalidSize(p) == Len(p) < 12 \/ Len(p) % 12 # 0

\* the cache resized only for a longer input: C13 does not hold of it
CacheForGrowOnly(t, c, p) ==
  IF Len(p) > Len(c.profile_do.m) THEN Resize(t, Len(p)) ELSE c

\* "if (pcpsize != (int)_profile_dom.size()) resize(pcpsize)"
CacheFor(t, c, p) ==
  IF Len(p) # Len(c.profile_do.m) THEN Resize(t, Len(p)) ELSE c

\* the scan of every mode and the cascade, for the scores corr
Decide(a, corr, pcpsize) ==
  LET sc == [X \in DOMAIN corr |-> Scan(corr[X])]
  IN  [corr |-> corr, scan |-> sc, choice |-> Choose(a, sc, pcpsize)]

\* the end of compute() with the names counted from C: C14 does not hold of
\* it
FinishNamesFromC(d) ==
  IF d.choice.keyIndex < 0
  THEN /\ err' = "KeyNotFound"
       /\ UNCHANGED outputs
  ELSE /\ err' = "none"
       /\ key' = keyNames[((d.choice.keyIndex + 3) % 12) + 1]
       /\ scale' = ScaleName(d.choice.scale)
       /\ strength' = d.choice.max
       /\ firstToSecondRelativeStrength' =
            RelativeStrength(d.choice.max, d.choice.max2)

\* the end of compute(): the throw on keyIndex < 0, else the four outputs
Finish(d) ==
  IF d.choice.keyIndex < 0
  THEN /\ err' = "KeyNotFound"
       /\ UNCHANGED outputs
  ELSE /\ err' = "none"
       /\ key' = keyNames[d.choice.keyIndex + 1]
       /\ scale' = ScaleName(d.choice.scale)
       /\ strength' = d.choice.max
       /\ firstToSecondRelativeStrength' =
            RelativeStrength(d.choice.max, d.choice.max2)

\* the instance after construction and the default configure()
InitOf(a, t, pcpSize) ==
  /\ alg = a
  /\ profileType = t
  /\ tmpl = SET_PROFILE(a, ProfileIndex(a, t))
  /\ cache = Resize(tmpl, pcpSize)
  /\ pcp = <<>>
  /\ key = ""
  /\ scale = ""
  /\ strength = NaN
  /\ firstToSecondRelativeStrength = RelativeStrength(NaN, NaN)
  /\ call = "construct"
  /\ err = "none"
  /\ locals = NoLocals

Init == \E a \in Algorithms : InitOf(a, DefaultType(a), DefaultPcpSize)

\* configure() without its closing resize(): C16 does not hold of it
ConfigureKeepCache(t, size) ==
  /\ call' = "configure"
  /\ UNCHANGED <<alg, pcp, outputs, locals, cache>>
  /\ IF t \notin DeclaredTypes(alg)
     THEN /\ err' = "ParameterOutOfRange"
          /\ UNCHANGED <<profileType, tmpl>>
     ELSE /\ profileType' = t
          /\ IF ProfileIndex(alg, t) < 0
             THEN /\ err' = "UnsupportedProfileType"
                  /\ UNCHANGED tmpl
             ELSE /\ err' = "none"
                  /\ tmpl' = SET_PROFILE(alg, ProfileIndex(alg, t))

\* configure() with profileType = t and pcpSize = size. The parameter's
\* declared range is checked before configure()'s body runs.
Configure(t, size) ==
  /\ call' = "configure"
  /\ UNCHANGED <<alg, pcp, outputs, locals>>
  /\ IF t \notin DeclaredTypes(alg)
     THEN /\ err' = "ParameterOutOfRange"
          /\ UNCHANGED <<profileType, tmpl, cache>>
     ELSE /\ profileType' = t
          /\ IF ProfileIndex(alg, t) < 0
             THEN /\ err' = "UnsupportedProfileType"
                  /\ UNCHANGED <<tmpl, cache>>
             ELSE /\ err' = "none"
                  /\ tmpl' = SET_PROFILE(alg, ProfileIndex(alg, t))
                  /\ cache' = Resize(tmpl', size)

\* compute() on the input p, the correlator returning the scores corr
Run(p, corr) ==
  /\ call' = "compute"
  /\ pcp' = p
  /\ UNCHANGED <<alg, profileType, tmpl>>
  /\ IF InvalidSize(p)
     THEN /\ err' = "InvalidPcpSize"
          /\ UNCHANGED <<cache, outputs, locals>>
     ELSE /\ cache' = CacheFor(tmpl, cache, p)
          /\ locals' = Decide(alg, corr, Len(p))
          /\ Finish(locals')

\* compute() on the input p
Compute(p) == Run(p, CorrTable(p, CacheFor(tmpl, cache, p)))

\* ------------------------------------------------------------- the inputs
\* profile type names a caller may pass: every name either algorithm
\* declares or tests for, and one that neither knows
TypeNames ==
  {"bmtg1", "bmtg2", "bmtg3", "edma", "edmm", "temperley", "shaath",
   "diatonic"}

\* the declared names configure()'s body accepts
UsableTypes(a) == {t \in DeclaredTypes(a) : ProfileIndex(a, t) >= 0}

\* the PCP sizes 12 * n with n bins per semitone
Sizes == {12 * n : n \in 1..MaxBins}

\* a PCP of size N with the value v in bin k (counted from 0), else 0
Unit(k, N, v) == AsSeq([i \in 1..N |-> IF i = k + 1 THEN v ELSE 0])

\* a PCP of size N with the same value v in every bin
Flat(N, v) == AsSeq([i \in 1..N |-> v])

\* a PCP of size N with u in bin j and v in bin k, else 0
Dyad(j, k, N, u, v) ==
  AsSeq([i \in 1..N |-> IF i = j + 1 THEN u ELSE IF i = k + 1 THEN v ELSE 0])

\* the pcpSize values of the call sequences
SpecSizes == {12, 12 * MaxBins}

\* inputs whose size compute() rejects: empty, below 12, not a multiple of 12
BadInputs == {<<>>, Flat(11, 1), Flat(13, 1)}

\* the inputs of the call sequences
SpecInputs ==
  BadInputs \cup {Unit(0, 12, 1), Dyad(0, 4 * MaxBins, 12 * MaxBins, MaxAmp, 1)}

\* the inputs of the single estimates
EstimateInputs ==
  UNION {{Unit(k, N, 1) : k \in 0..(N - 1)} : N \in Sizes}
    \cup {Flat(N, v) : N \in Sizes, v \in 0..MaxAmp}
    \cup {Dyad(q[1], q[2], 12, u, MaxAmp) :
            q \in {r \in (0..11) \X (0..11) : r[1] # r[2]},
            u \in {1, MaxAmp}}

\* a row of N scores in quarters: hi at shift at, mid at shift 5, elsewhere
\* low
Row(N, hi, at, mid, low) ==
  AsSeq([s \in 1..N |-> IF s = at + 1 THEN RealFrac(hi, 4)
                        ELSE IF s = 6 THEN RealFrac(mid, 4)
                        ELSE RealFrac(low, 4)])

\* the rows of one mode: a positive peak at the first or the last shift,
\* alone or tied with shift 5, and a row of negative scores
Rows(N) ==
  {Row(N, hi, at, mid, 0 - 1) : hi \in 1..2, at \in {0, N - 1}, mid \in 0..2}
    \cup {Row(N, 0 - 2, 0, 0 - 3, 0 - 3)}

\* a row of NaN: the correlator's 0 / 0
NaNRow(N) == AsSeq([s \in 1..N |-> NaN])

\* score tables the correlator may return in float arithmetic for an input of
\* size N: finite rows for every mode, NaN everywhere (a constant input), or
\* NaN for the major mode only (a constant major template)
ScoreTables(a, N) ==
  [Modes(a) -> Rows(N)]
    \cup {[X \in Modes(a) |-> NaNRow(N)]}
    \cup (IF a = "KeyEDM"
          THEN {[X \in Modes(a) |-> IF X = "M" THEN NaNRow(N) ELSE r] :
                  r \in Rows(N)}
          ELSE {})

\* ------------------------------------------------------ the specifications
\* any sequence of configure() and compute() calls on one instance
DoConfigure == \E t \in TypeNames, size \in SpecSizes : Configure(t, size)

DoCompute == \E p \in SpecInputs : Compute(p)

Next == DoConfigure \/ DoCompute

Spec == Init /\ [][Next]_vars

\* one compute() on an instance configured with a usable profile type
InitEstimate ==
  \E a \in Algorithms : \E t \in UsableTypes(a) : InitOf(a, t, DefaultPcpSize)

Estimate == call = "construct" /\ \E p \in EstimateInputs : Compute(p)

SpecEstimate == InitEstimate /\ [][Estimate]_vars

\* one compute() whose correlator returns any of the score tables (pcp then
\* stands for the input's size only)
ComputeScores ==
  /\ call = "construct"
  /\ \E N \in Sizes : \E corr \in ScoreTables(alg, N) :
       Run(Unit(0, N, 1), corr)

SpecScores == Init /\ [][ComputeScores]_vars

\* ---------------------------------------------------- streaming composites
\* The streaming Key2 and KeyEDM hold a standard instance (_key2Algo,
\* _keyEDMAlgo), modelled by the same variables. The averaged PCP that
\* process() takes from the pool is the input p; a process() before the end
\* of the stream returns PASS and changes nothing.

\* the profile type process() configures the inner instance with
ProcessType(a) == IF a = "Key2" THEN "bmtg2" ELSE "edma"

\* the composite's configure() with profileType = t and pcpSize at its
\* default: both parameters are handed on to the inner instance
StreamConfigure(t) == Configure(t, DefaultPcpSize)

\* process() at the end of the stream: the inner configure("profileType",
\* ProcessType), the pcpSize parameter staying as it is, then the inner
\* compute() on p, whose key, scale and strength are pushed
Process(p) ==
  LET t == ProcessType(alg)
      configured == Resize(SET_PROFILE(alg, ProfileIndex(alg, t)), DefaultPcpSize)
  IN  /\ call' = "process"
      /\ pcp' = p
      /\ UNCHANGED alg
      /\ profileType' = t
      /\ tmpl' = SET_PROFILE(alg, ProfileIndex(alg, t))
      /\ IF InvalidSize(p)
         THEN /\ err' = "InvalidPcpSize"
              /\ cache' = configured
              /\ UNCHANGED <<outputs, locals>>
         ELSE /\ cache' = CacheFor(tmpl', configured, p)
              /\ locals' = Decide(alg, CorrTable(p, cache'), Len(p))
              /\ Finish(locals')

\* the averaged PCPs of the streams
StreamInputs ==
  BadInputs
    \cup {Unit(k, N, 1) : k \in 0..11, N \in SpecSizes}
    \cup {Flat(N, v) : N \in Sizes, v \in 0..MaxAmp}
    \cup {Dyad(0, k, 12, 1, MaxAmp) : k \in 1..11}

\* the composite is configured any number of times and then run once
DoStreamConfigure ==
  call # "process" /\ \E t \in TypeNames : StreamConfigure(t)

DoProcess == call # "process" /\ \E p \in StreamInputs : Process(p)

NextStreaming == DoStreamConfigure \/ DoProcess

SpecStreaming == Init /\ [][NextStreaming]_vars

\* ------------------------------------------------------------- properties
\* C2: a compute() call ends with the invalid-size error exactly when the
\* input's length is below 12 or not a multiple of 12, and such a call leaves
\* the cached profiles, their means and deviations and the four outputs as
\* they were.
C2_InvalidSizeChangesNothing ==
  [][call' = "compute" =>
       /\ (err' = "InvalidPcpSize") <=> (Len(pcp') < 12 \/ Len(pcp') % 12 # 0)
       /\ (err' = "InvalidPcpSize") =>
            /\ cache' = cache
            /\ key' = key
            /\ scale' = scale
            /\ strength' = strength
            /\ firstToSecondRelativeStrength' = firstToSecondRelativeStrength]_vars

\* a compute() on 13 bins has failed after an earlier one wrote the outputs
C2_Witness ==
  /\ call = "compute"
  /\ err = "InvalidPcpSize"
  /\ Len(pcp) = 13
  /\ key # ""
  /\ Len(cache.profile_do.m) = 12 * MaxBins

\* C3: configure() ends with the unsupported-profile-type error exactly when
\* the identifier is outside the algorithm's declared set: an identifier of
\* the declared set (one the range check lets through) is accepted and its
\* templates are loaded.
C3_DeclaredTypesAccepted ==
  (call = "configure" /\ err # "ParameterOutOfRange") =>
    /\ profileType \in DeclaredTypes(alg)
    /\ err = "none"
    /\ tmpl = SET_PROFILE(alg, ProfileIndex(alg, profileType))

\* the last call was a compute() that passed the size check
Computed == call = "compute" /\ err # "InvalidPcpSize"

\* the template role of the local scale
RoleOf(sc) == IF sc = "MAJOR" THEN "M" ELSE IF sc = "MINOR" THEN "m" ELSE "O"

\* the scores and the scan of the mode the cascade chose
WinRow == locals.corr[RoleOf(locals.choice.scale)]

WinScan == locals.scan[RoleOf(locals.choice.scale)]

\* C1: every compute() on an input whose size is a multiple of 12, at least
\* 12, ends without an error, with keyIndex in 0..11 and the key output one
\* of the 12 names.
C1_KeyAlwaysFound ==
  Computed =>
    /\ err = "none"
    /\ locals.choice.keyIndex \in 0..11
    /\ key \in {keyNames[i] : i \in 1..12}

\* C4: Key2's compute() raises KeyNotFound only if no mode's scan ever
\* updated its running maximum: if some mode recorded a best shift, a key is
\* returned, ties between the maxima included.
C4_KeyNotFoundOnlyWithoutScores ==
  (alg = "Key2" /\ Computed /\ err = "KeyNotFound") =>
    \A X \in Modes(alg) : locals.scan[X].keyIndex < 0

\* C5: when no mode resolved a best shift (every per-mode index is still -1,
\* as for a constant input), compute() raises KeyNotFound and writes no
\* output; no placeholder key is returned.
C5_UnresolvedRaisesKeyNotFound ==
  (Computed /\ \A X \in Modes(alg) : locals.scan[X].keyIndex = 0 - 1) =>
    /\ err = "KeyNotFound"
    /\ key = ""
    /\ scale = ""

\* C6: Key2 chooses major iff maxMajor > maxMinor and maxMajor > maxOther,
\* otherwise minor iff maxMinor >= maxMajor and maxMinor >= maxOther, otherwise
\* other iff maxOther > maxMajor and maxOther > maxMinor; the scale output is
\* "major" for major and "minor" for minor and for other, and key and
\* strength are those of the chosen mode's best shift and maximum.
C6_Key2Cascade ==
  (alg = "Key2" /\ Computed) =>
    LET sc == locals.scan
        major == ScoreGT(sc.M.max, sc.m.max) /\ ScoreGT(sc.M.max, sc.O.max)
        minor == /\ ~major
                 /\ ScoreGE(sc.m.max, sc.M.max) /\ ScoreGE(sc.m.max, sc.O.max)
        other == /\ ~major /\ ~minor
                 /\ ScoreGT(sc.O.max, sc.M.max) /\ ScoreGT(sc.O.max, sc.m.max)
        win == IF major THEN sc.M ELSE IF minor THEN sc.m ELSE sc.O
    IN  /\ (err = "none" /\ locals.choice.scale = "MAJOR") <=> major
        /\ (err = "none" /\ locals.choice.scale = "MINOR") <=> minor
        /\ (err = "none" /\ locals.choice.scale = "OTHER") <=> other
        /\ err = "none" =>
             /\ scale = (IF major THEN "major" ELSE "minor")
             /\ key = keyNames[KeyIndexOf(win.keyIndex, Len(pcp)) + 1]
             /\ strength = win.max

\* Key2 has chosen other, reported as "minor", at a best shift past 0
C6_Witness ==
  /\ alg = "Key2"
  /\ Computed
  /\ err = "none"
  /\ locals.choice.scale = "OTHER"
  /\ scale = "minor"
  /\ locals.scan.O.keyIndex > 0
  /\ ScoreEQ(locals.scan.M.max, locals.scan.m.max)

\* C7: KeyEDM reports "major" iff maxMajor >= maxMinor and "minor" otherwise,
\* with the key, the strength and the second maximum of the selected mode.
C7_KeyEDMChoice ==
  (alg = "KeyEDM" /\ Computed) =>
    LET sc == locals.scan
        major == ScoreGE(sc.M.max, sc.m.max)
        win == IF major THEN sc.M ELSE sc.m
    IN  /\ err = "none"
        /\ scale = (IF major THEN "major" ELSE "minor")
        /\ key = keyNames[KeyIndexOf(win.keyIndex, Len(pcp)) + 1]
        /\ strength = win.max
        /\ firstToSecondRelativeStrength = RelativeStrength(win.max, win.max2)

\* KeyEDM has reported "major" on equal maxima
C7_Witness ==
  /\ alg = "KeyEDM"
  /\ Computed
  /\ ScoreEQ(locals.scan.M.max, locals.scan.m.max)
  /\ scale = "major"
  /\ locals.scan.M.keyIndex # locals.scan.m.keyIndex

\* the shifts of the winning mode other than its best shift
OtherShifts == (1..Len(WinRow)) \ {WinScan.keyIndex + 1}

\* C8: firstToSecondRelativeStrength is (best - secondBest) / best, best the
\* highest and secondBest the second-highest score of the winning mode over
\* all its shifts, wherever the best shift lies in the scan.
C8_SecondBestOverAllShifts ==
  (Computed /\ err = "none" /\ WinScan.keyIndex >= 0) =>
    /\ ScoreEQ(firstToSecondRelativeStrength.max, WinRow[WinScan.keyIndex + 1])
    /\ \A s \in OtherShifts : ScoreGE(firstToSecondRelativeStrength.max, WinRow[s])
    /\ \E s \in OtherShifts :
         /\ ScoreEQ(firstToSecondRelativeStrength.max2, WinRow[s])
         /\ \A t \in OtherShifts : ScoreGE(WinRow[s], WinRow[t])

\* every bin of p holds the same value
IsConstant(p) == \A i \in 1..Len(p) : p[i] = p[1]

\* C9: for a non-constant input of valid size whose strength is at least 0.1,
\* 0 <= firstToSecondRelativeStrength <= 1, that is max2 <= max (the
\* quotient is not negative) and 0 <= max2 (it is not above 1).
C9_RelativeStrengthInUnitInterval ==
  (Computed /\ err = "none" /\ ~IsConstant(pcp)
     /\ ScoreGE(strength, RealFrac(1, 10))) =>
    /\ ScoreGE(firstToSecondRelativeStrength.max, firstToSecondRelativeStrength.max2)
    /\ ScoreGE(firstToSecondRelativeStrength.max2, RealOf(0))

\* pcp'[i] = pcp[(i - N/12) mod N]
Rotate(p) ==
  LET N == Len(p)
  IN  AsSeq([k \in 1..N |-> p[((k - 1 - N \div 12) % N) + 1]])

\* compute()'s decision for the rotated input, on the same instance
RotatedDecision == Decide(alg, CorrTable(Rotate(pcp), cache), Len(pcp))

\* the name after k in keyNames, the last wrapping to the first
NextName(k) ==
  LET i == CHOOSE j \in 1..12 : keyNames[j] = k IN keyNames[(i % 12) + 1]

\* the rotated input gets the same scale and the next key name
RotationShiftsKey ==
  /\ RotatedDecision.choice.keyIndex >= 0
  /\ ScaleName(RotatedDecision.choice.scale) = scale
  /\ keyNames[RotatedDecision.choice.keyIndex + 1] = NextName(key)

\* C10 as stated: for every input of valid size, the input rotated by one
\* semitone (N/12 bins) gets the same scale and the key one name later.
C10_RotationShiftsKey == (Computed /\ err = "none") => RotationShiftsKey

\* the winning mode's maximum is the score of one shift only
UniqueBest ==
  /\ ~strength.nan
  /\ Cardinality({s \in 1..Len(WinRow) : ScoreEQ(WinRow[s], strength)}) = 1

\* C10, amended: when the winning mode's maximum is attained at exactly one
\* shift, the input rotated by one semitone gets the same scale and the key
\* one name later.
C10_RotationShiftsUniqueBest ==
  (Computed /\ err = "none" /\ UniqueBest) => RotationShiftsKey

\* an input whose one best shift gives the last name, Ab: its rotation wraps
\* to A
C10_Witness ==
  /\ Computed
  /\ err = "none"
  /\ UniqueBest
  /\ key = "Ab"
  /\ Len(pcp) = 12 * MaxBins

\* C11: the input rotated by one semitone gets the same strength and the
\* same firstToSecondRelativeStrength (the same max and max2 of the winning
\* mode) as the input itself.
C11_RotationKeepsStrengths ==
  (Computed /\ err = "none") =>
    /\ RotatedDecision.choice.keyIndex >= 0
    /\ ScoreEQ(RotatedDecision.choice.max, strength)
    /\ ScoreEQ(RotatedDecision.choice.max, firstToSecondRelativeStrength.max)
    /\ ScoreEQ(RotatedDecision.choice.max2, firstToSecondRelativeStrength.max2)

\* the factors c of the scaled inputs c * pcp
ScaleFactors == 2..(MaxAmp + 1)

\* c * pcp
Scaled(c, p) == AsSeq([k \in 1..Len(p) |-> c * p[k]])

\* compute()'s decision for the scaled input, on the same instance
ScaledDecision(c) == Decide(alg, CorrTable(Scaled(c, pcp), cache), Len(pcp))

\* C12: for a non-constant input of valid size and a factor c > 0, compute()
\* on c * pcp ends as compute() on pcp does, with the same key, scale,
\* strength and firstToSecondRelativeStrength (scores compared as reals).
C12_ScaleInvariance ==
  (Computed /\ ~IsConstant(pcp)) =>
    \A c \in ScaleFactors :
      LET d == ScaledDecision(c).choice
      IN  /\ (d.keyIndex < 0) <=> (err = "KeyNotFound")
          /\ err = "none" =>
                /\ keyNames[d.keyIndex + 1] = key
                /\ ScaleName(d.scale) = scale
                /\ ScoreEQ(d.max, strength)
                /\ ScoreEQ(d.max, firstToSecondRelativeStrength.max)
                /\ ScoreEQ(d.max2, firstToSecondRelativeStrength.max2)

\* a key past the first was found for an input with the amplitudes 1 and
\* MaxAmp, with a second maximum above 0
C12_Witness ==
  /\ Computed
  /\ err = "none"
  /\ \E i, j \in 1..Len(pcp) : pcp[i] = 1 /\ pcp[j] = MaxAmp
  /\ locals.choice.keyIndex > 0
  /\ ScoreGT(firstToSecondRelativeStrength.max2, RealOf(0))

\* compute()'s decision for the input p on an instance just configured with
\* the profile type t and the hint Len(p)
EstimateOf(a, t, p) ==
  Decide(a, CorrTable(p, Resize(SET_PROFILE(a, ProfileIndex(a, t)), Len(p))),
         Len(p))

\* C13: whatever configure() and compute() calls came before, a compute() on
\* an input of valid size ends as it does on an instance just configured
\* with the loaded profile type: the same error or the same four outputs,
\* given by pcp and the profile type alone.
C13_HistoryIndependence ==
  Computed =>
    \E t \in UsableTypes(alg) :
      /\ tmpl = SET_PROFILE(alg, ProfileIndex(alg, t))
      /\ LET d == EstimateOf(alg, t, pcp).choice
         IN  /\ (d.keyIndex < 0) <=> (err = "KeyNotFound")
             /\ err = "none" =>
                   /\ key = keyNames[d.keyIndex + 1]
                   /\ scale = ScaleName(d.scale)
                   /\ strength = d.max
                   /\ firstToSecondRelativeStrength =
                        RelativeStrength(d.max, d.max2)

\* a compute() on 12 bins after a configure() that changed the profile type
\* (the instance is constructed with the default type and a 36-bin cache)
C13_Witness ==
  /\ Computed
  /\ err = "none"
  /\ Len(pcp) = 12
  /\ profileType \in UsableTypes(alg) \ {DefaultType(alg)}
  /\ tmpl = SET_PROFILE(alg, ProfileIndex(alg, profileType))

\* C14: a 12-bin input with one bin k above zero gets the k-th name of
\* A, Bb, B, C, C#, D, Eb, E, F, F#, G, Ab (bin 0 gets A), for every k, either
\* algorithm and every profile type it supports.
C14_UnitVectorNamesItsBin ==
  \A k \in 0..11 :
    (Computed /\ pcp = Unit(k, 12, 1)) =>
      /\ err = "none"
      /\ key = <<"A", "Bb", "B", "C", "C#", "D", "Eb", "E", "F", "F#", "G",
                 "Ab">>[k + 1]

\* KeyEDM with the profile type edmm has named the last bin
C14_Witness ==
  /\ Computed
  /\ alg = "KeyEDM"
  /\ profileType = "edmm"
  /\ pcp = Unit(11, 12, 1)
  /\ key = "Ab"

\* C15: the key index is floor(s * 12 / N + 0.5) for the best shift s of the
\* winning mode and the input size N, the real quotient rounded half up
\* (N = 24, s = 1 gives 1).
C15_KeyIndexRoundsHalfUp ==
  (Computed /\ err = "none" /\ WinScan.keyIndex >= 0) =>
    locals.choice.keyIndex =
      (2 * 12 * WinScan.keyIndex + Len(pcp)) \div (2 * Len(pcp))

\* C16: whatever configure() and compute() calls came before, when a
\* compute() on an input of valid size N has run its scan, every mode's
\* cached profile has N entries and is the interpolation of the loaded
\* template at n = N / 12, the cached mean and deviation root are those of
\* these N entries, and the scores are those of the input against this cache.
C16_CacheCoherence ==
  Computed =>
    /\ \A X \in Modes(alg) :
         /\ Len(cache.profile_do[X]) = Len(pcp)
         /\ cache.profile_do[X] = Interpolate(tmpl[X], Len(pcp))
         /\ cache.mean_profile[X] = Mean(cache.profile_do[X])
         /\ cache.std_profile[X] =
              Std(cache.profile_do[X], cache.mean_profile[X])
    /\ locals.corr = CorrTable(pcp, cache)

\* a compute() at the finest resolution after a configure() that loaded
\* other templates than the default ones, with a hint of 12 or 12 * MaxBins
C16_Witness ==
  /\ Computed
  /\ Len(pcp) = 12 * MaxBins
  /\ tmpl # SET_PROFILE(alg, ProfileIndex(alg, DefaultType(alg)))
  /\ Len(cache.profile_do.m) = 12 * MaxBins

\* C17: a cached profile has 12 * n entries; entry i * n + j, for i in 0..11
\* and j in 0..n-1, is template[i] + j * (template[(i + 1) mod 12] -
\* template[i]) / n (here times n), the segment after the last template
\* entry leading back to the first; for n = 1 the profile is the template.
C17_InterpolationFormula ==
  \A X \in Modes(alg) :
    LET P == cache.profile_do[X]
        T == tmpl[X]
        n == Len(P) \div 12
    IN  /\ n >= 1
        /\ DOMAIN P = 1..(12 * n)
        /\ \A i \in 0..11 : \A j \in 0..(n - 1) :
             P[i * n + j + 1] = n * T[i + 1] + j * (T[((i + 1) % 12) + 1] - T[i + 1])
        /\ n = 1 => P = T

\* a compute() has interpolated the cache at the finest resolution, the
\* entry before the wrap lying strictly between the last and the first
\* template entry
C17_Witness ==
  /\ Computed
  /\ MaxBins > 1
  /\ Len(cache.profile_do.M) = 12 * MaxBins
  /\ cache.profile_do.M[12 * MaxBins] > MaxBins * tmpl.M[12]
  /\ cache.profile_do.M[12 * MaxBins] < MaxBins * tmpl.M[1]

\* C18: process() leaves the inner instance's profile type as the
\* composite's configure() set it, and estimates the key with the templates
\* of that type, for every declared profile type.
C18_ProcessKeepsProfileType ==
  [][call' = "process" =>
       /\ profileType' = profileType
       /\ profileType \in UsableTypes(alg) =>
            tmpl' = SET_PROFILE(alg, ProfileIndex(alg, profileType))]_vars

====
